---- MODULE Spec2Model ----
(***************************************************************************)
(* A model of the retrieval-augmented question-answering service:          *)
(*   app/routes/endpoints.py          upload / run / summarize handlers    *)
(*   app/services/vector_store.py     EnhancedHybridVectorStore            *)
(*   app/services/llm_processor.py    ImprovedLLMProcessor                 *)
(*   app/services/content_processor.py ContentProcessor                    *)
(*   cache_manager.py                 the URL-keyed document cache         *)
(*                                                                         *)
(* Texts are modelled at two granularities.  A language-model response is  *)
(* a sequence of lines, each line a sequence of whitespace-separated       *)
(* tokens (JSON punctuation, JSON literals, code fences, "N." numbering    *)
(* and plain words are tokens of their own).  A document text is a         *)
(* sequence of characters over a small alphabet.  A Python str that ends   *)
(* up in a result is a TLA+ string.                                        *)
(***************************************************************************)
EXTENDS Integers, Sequences, FiniteSets, TLC

VARIABLES
    \* ---- answer synthesis (llm_processor.generate_answers) ----
    questions,        \* the list of questions handed to generate_answers
    llm_raises,       \* TRUE when the language-model call itself raises
    response_text,    \* the text the language model returned (lines of tokens)
    answers,          \* the value generate_answers returned (a list of Python values)
    apath,            \* which path produced it: "none", "json", "fallback", "error"
    aphase            \* "call" before generate_answers ran, "done" after

avars == <<questions, llm_raises, response_text, answers, apath, aphase>>

VARIABLES
    \* ---- the document cache (cache_manager.py) ----
    document_cache,   \* the module-level dict: url hash -> entry
    cache_clock,      \* datetime.utcnow(), counted in cache_document calls
    cache_last,       \* the last cache operation, its url and what it returned
    cache_puts        \* history: per url, the arguments of the latest cache_document

cvars == <<document_cache, cache_clock, cache_last, cache_puts>>

VARIABLES
    \* ---- the service (endpoints.py, vector_store.py, the session store) ----
    pinecone,         \* the one index namespace: vector id -> metadata
    sessions,         \* the session store: session token -> {document_id, full_text}
    uuid_count,       \* how many document identifiers uuid4 has produced
    token_count,      \* how many session tokens the session store has minted
    req,              \* the last request: its inputs, what it did and its response
    latest_upload     \* history: per session token, the latest successful upload

svars == <<pinecone, sessions, uuid_count, token_count, req, latest_upload>>

VARIABLES
    \* ---- retrieval aggregation of process_documents, on its own ----
    agg_results,      \* per question, the list of texts its search returned
    agg_final,        \* final_chunks, the list handed to the synthesizer
    agg_phase         \* "collect" while results come in, "done" after aggregation

gvars == <<agg_results, agg_final, agg_phase>>

VARIABLES
    \* ---- download_and_extract and the temporary files it leaves on disk ----
    temp_files,       \* the temporary files that exist
    temp_created,     \* how many temporary files were created so far
    ex_last           \* the last call: its resource and what it returned or raised

evars == <<temp_files, temp_created, ex_last>>

VARIABLES
    \* ---- one run of analyze_text_for_risks or of summarize_text ----
    run_op,           \* "risks", "summarize", or "none" before the run
    run_pc,           \* where the run stands: ready, calling, sleep, done
    run_items,        \* checklist entries, resp. chunk groups, of the run
    run_idx,          \* the entry the loop is at; run_items + 1 is the reduce call
    in_flight,        \* model calls started and not yet ended
    elapsed,          \* time since the last model call ended, counted up to FixedDelay
    min_gap,          \* least time seen between the end of a call and the next start
    call_log,         \* the calls made so far and how each ended
    found_risks,      \* analyze_text_for_risks: the findings so far
    run_result        \* what the run returned

lvars == <<run_op, run_pc, run_items, run_idx, in_flight, elapsed, min_gap, call_log,
           found_risks, run_result>>

vars == <<avars, cvars, svars, gvars, evars, lvars>>

\* what the actions of one part of the model leave alone
OutsideAnswer == <<cvars, svars, gvars, evars, lvars>>
OutsideCache == <<avars, svars, gvars, evars, lvars>>
OutsideService == <<avars, cvars, gvars, evars, lvars>>
OutsideAggregation == <<avars, cvars, svars, evars, lvars>>
OutsideExtract == <<avars, cvars, svars, gvars, lvars>>
OutsideRuns == <<avars, cvars, svars, gvars, evars>>

(***************************************************************************)
(* Bounds of the model.                                                    *)
(***************************************************************************)
MaxQuestions == 3
MaxAnswers == 3
MaxLines == 2
NumUrls == 2
MaxCachePuts == 3
MaxUploads == 2
MaxRunQuestions == 2
MaxAggQuestions == 5
MaxTempFiles == 3
MaxCategories == 3
MaxGroups == 2

(***************************************************************************)
(* Python values.  Every value has the same record shape so that values    *)
(* of different Python types can be compared.                              *)
(***************************************************************************)
PStr(s) == [t |-> "str", s |-> s, items |-> <<>>]
PNum(s) == [t |-> "int", s |-> s, items |-> <<>>]
PNull == [t |-> "NoneType", s |-> "", items |-> <<>>]
PBool(b) == [t |-> "bool", s |-> IF b THEN "True" ELSE "False", items |-> <<>>]
PList(items) == [t |-> "list", s |-> "", items |-> items]
PDict(members) == [t |-> "dict", s |-> "", items |-> members]
Member(k, v) == [k |-> k, v |-> v]

IsStr(v) == v.t = "str"

Min(a, b) == IF a < b THEN a ELSE b

SeqTake(s, n) == SubSeq(s, 1, Min(n, Len(s)))

(***************************************************************************)
(* Tokens of a response text.                                              *)
(***************************************************************************)
JsonStringValue ==
    ("\"answers\"" :> "answers") @@ ("\"other\"" :> "other") @@
    ("\"A1\"" :> "A1") @@ ("\"A2\"" :> "A2") @@ ("\"A3\"" :> "A3") @@
    ("\"found\"" :> "found") @@ ("\"explanation\"" :> "explanation") @@
    ("\"quote\"" :> "quote")

JsonNumberTokens == {"7"}

\* "<fence>" stands for a run of three backquotes, "<fence>json" for the same
\* run followed by the word json
FenceTokens == {"<fence>", "<fence>json"}

\* tokens t for which re.match(r"^\d+\.", t) succeeds
NumberedTokens == {"1.", "2.", "3."}

\* tokens that start with one of the prefixes fallback_parse skips
SkipPrefixTokens == FenceTokens \cup {"{", "}", "\"answers\"", "CONTEXT", "QUESTIONS"}

RECURSIVE Flatten(_)
Flatten(lines) ==
    IF lines = <<>> THEN <<>> ELSE Head(lines) \o Flatten(Tail(lines))

RECURSIVE Join(_)
\* " ".join(tokens): the text of a run of tokens of one line
Join(toks) ==
    IF toks = <<>> THEN ""
    ELSE IF Len(toks) = 1 THEN toks[1]
    ELSE toks[1] \o " " \o Join(Tail(toks))

(***************************************************************************)
(* json.loads on a token sequence: a recursive-descent parser of JSON      *)
(* values (strings, numbers, null, booleans, arrays, objects).             *)
(***************************************************************************)
JFail == [ok |-> FALSE, val |-> PNull, next |-> 0]
JOk(v, n) == [ok |-> TRUE, val |-> v, next |-> n]

RECURSIVE ParseValue(_, _), ParseElements(_, _, _), ParseMembers(_, _, _)

ParseValue(toks, i) ==
    IF i > Len(toks) THEN JFail
    ELSE LET tk == toks[i] IN
         CASE tk \in DOMAIN JsonStringValue -> JOk(PStr(JsonStringValue[tk]), i + 1)
           [] tk \in JsonNumberTokens -> JOk(PNum(tk), i + 1)
           [] tk = "null" -> JOk(PNull, i + 1)
           [] tk \in {"true", "false"} -> JOk(PBool(tk = "true"), i + 1)
           [] tk = "[" ->
                IF i + 1 <= Len(toks) /\ toks[i + 1] = "]"
                THEN JOk(PList(<<>>), i + 2)
                ELSE ParseElements(toks, i + 1, <<>>)
           [] tk = "{" ->
                IF i + 1 <= Len(toks) /\ toks[i + 1] = "}"
                THEN JOk(PDict(<<>>), i + 2)
                ELSE ParseMembers(toks, i + 1, <<>>)
           [] OTHER -> JFail

ParseElements(toks, i, acc) ==
    LET r == ParseValue(toks, i) IN
    IF ~r.ok \/ r.next > Len(toks) THEN JFail
    ELSE IF toks[r.next] = "," THEN ParseElements(toks, r.next + 1, Append(acc, r.val))
    ELSE IF toks[r.next] = "]" THEN JOk(PList(Append(acc, r.val)), r.next + 1)
    ELSE JFail

ParseMembers(toks, i, acc) ==
    IF i + 1 > Len(toks) \/ toks[i] \notin DOMAIN JsonStringValue \/ toks[i + 1] # ":"
    THEN JFail
    ELSE LET r == ParseValue(toks, i + 2) IN
         IF ~r.ok \/ r.next > Len(toks) THEN JFail
         ELSE LET acc2 == Append(acc, Member(JsonStringValue[toks[i]], r.val)) IN
              IF toks[r.next] = "," THEN ParseMembers(toks, r.next + 1, acc2)
              ELSE IF toks[r.next] = "}" THEN JOk(PDict(acc2), r.next + 1)
              ELSE JFail

\* json.loads(json_str): the whole string must be one JSON value
JsonLoads(toks) ==
    LET r == ParseValue(toks, 1) IN
    IF r.ok /\ r.next = Len(toks) + 1 THEN r ELSE JFail

\* "answers" in parsed
HasKey(d, k) == \E i \in 1..Len(d.items) : d.items[i].k = k

\* parsed["answers"]: the last member of that name wins
GetKey(d, k) ==
    LET idx == {i \in 1..Len(d.items) : d.items[i].k = k}
        last == CHOOSE i \in idx : \A j \in idx : j <= i
    IN d.items[last].v

(***************************************************************************)
(* ImprovedLLMProcessor.parse_response and fallback_parse.                 *)
(***************************************************************************)
PadPlaceholder == "Unable to find relevant information in the provided context."
FallbackPlaceholder == "Unable to process this question due to response parsing issues."
ErrorAnswer == "Error: the language-model call failed"

SetMin(S) == CHOOSE i \in S : \A j \in S : i <= j

NoJson == [found |-> FALSE, toks |-> <<>>]

\* the fenced-block regex search of parse_response (leftmost fence opener followed
\* by an opening brace, shortest span up to a closing brace followed by a fence),
\* else the text from its first opening brace to its end
ExtractJson(toks) ==
    LET n == Len(toks)
        Closers(i) == {j \in (i + 2)..(n - 1) : toks[j] = "}" /\ toks[j + 1] \in FenceTokens}
        starts == {i \in 1..n : /\ toks[i] = "<fence>json"
                                /\ i + 1 <= n
                                /\ toks[i + 1] = "{"
                                /\ Closers(i) # {}}
        braces == {i \in 1..n : toks[i] = "{"}
    IN IF starts # {}
       THEN LET i == SetMin(starts) IN
            [found |-> TRUE, toks |-> SubSeq(toks, i + 1, SetMin(Closers(i)))]
       ELSE IF braces # {}
       THEN [found |-> TRUE, toks |-> SubSeq(toks, SetMin(braces), n)]
       ELSE NoJson

\* the body of the try block of parse_response up to the padding: the answers list
\* of the JSON object, or a raised ValueError / JSONDecodeError (ok = FALSE)
ParsedAnswers(lines) ==
    LET ex == ExtractJson(Flatten(lines))
        r == JsonLoads(ex.toks)
    IN IF ~ex.found \/ ex.toks = <<>> THEN [ok |-> FALSE, list |-> <<>>]
       ELSE IF ~r.ok THEN [ok |-> FALSE, list |-> <<>>]
       ELSE IF r.val.t # "dict" \/ ~HasKey(r.val, "answers") THEN [ok |-> FALSE, list |-> <<>>]
       ELSE IF GetKey(r.val, "answers").t # "list" THEN [ok |-> FALSE, list |-> <<>>]
       ELSE [ok |-> TRUE, list |-> GetKey(r.val, "answers").items]

RECURSIVE Pad(_, _, _)
\* while len(answers) < n: answers.append(placeholder)
Pad(list, n, placeholder) ==
    IF Len(list) < n THEN Pad(Append(list, PStr(placeholder)), n, placeholder) ELSE list

\* a pad / truncate step that pads but forgets to truncate
PadTruncate_NoTruncate(list, n) == Pad(list, n, PadPlaceholder)

\* the pad / truncate step of parse_response
PadTruncate(list, n) == SeqTake(Pad(list, n, PadPlaceholder), n)

RECURSIVE FallbackLoop(_, _, _)
\* the for loop of fallback_parse over response_text.splitlines();
\* acc is the answers list, cur is current_answer
FallbackLoop(lines, acc, cur) ==
    IF lines = <<>> THEN [acc |-> acc, cur |-> cur]
    ELSE LET line == Head(lines)
             rest == Tail(lines)
         IN IF line = <<>> \/ line[1] \in SkipPrefixTokens
            THEN FallbackLoop(rest, acc, cur)
            ELSE IF line[1] \in NumberedTokens
            THEN FallbackLoop(rest,
                              IF cur # "" THEN Append(acc, PStr(cur)) ELSE acc,
                              Join(Tail(line)))
            ELSE IF cur # ""
            THEN FallbackLoop(rest, acc, cur \o " " \o Join(line))
            ELSE FallbackLoop(rest, acc, Join(line))

fallback_parse(lines, n) ==
    LET r == FallbackLoop(lines, <<>>, "")
        collected == IF r.cur # "" THEN Append(r.acc, PStr(r.cur)) ELSE r.acc
    IN SeqTake(Pad(collected, n, FallbackPlaceholder), n)

parse_response(lines, n) ==
    LET p == ParsedAnswers(lines) IN
    IF p.ok
    THEN [answers |-> PadTruncate(p.list, n), path |-> "json"]
    ELSE [answers |-> fallback_parse(lines, n), path |-> "fallback"]

(***************************************************************************)
(* ImprovedLLMProcessor.analyze_text_for_risks: one model call per entry   *)
(* of the checklist.                                                       *)
(***************************************************************************)
RiskChecklistFull ==
    <<"Automatic Renewal", "High Penalties or Unclear Fees", "Waiver of Rights / Arbitration",
      "One-Sided Indemnification", "Exclusions & Limitations of Liability",
      "Unfavorable Payment Terms", "Ambiguous or Vague Language",
      "Restrictions on Use or Access", "Data Privacy & Sharing">>

\* the scan is run on the first MaxCategories entries of the checklist
RiskChecklist == SubSeq(RiskChecklistFull, 1, Min(MaxCategories, Len(RiskChecklistFull)))

SetMax(S) == CHOOSE i \in S : \A j \in S : j <= i

\* the regex search for an opening brace, anything, a closing brace (greedy,
\* across lines): from the first opening brace to the last closing brace
RiskJsonMatch(toks) ==
    LET opens == {i \in 1..Len(toks) : toks[i] = "{"}
        closes == {i \in 1..Len(toks) : toks[i] = "}"}
    IN IF opens # {} /\ closes # {} /\ SetMin(opens) < SetMax(closes)
       THEN [found |-> TRUE, toks |-> SubSeq(toks, SetMin(opens), SetMax(closes))]
       ELSE NoJson

\* a test that takes every value for true
Truthy_Always(v) == TRUE

\* bool(v) of a Python value
Truthy(v) ==
    CASE v.t = "bool" -> v.s = "True"
      [] v.t = "NoneType" -> FALSE
      [] v.t = "str" -> v.s # ""
      [] v.t = "int" -> v.s # "0"
      [] OTHER -> v.items # <<>>

\* parsed_response.get(key, default)
DictGet(d, k, default) == IF HasKey(d, k) THEN GetKey(d, k) ELSE default

\* the body of the try block for one checklist entry, up to the sleep: what is
\* appended to found_risks, if anything, and whether an exception was raised
ScanResponse(category, raises, lines) ==
    LET mt == RiskJsonMatch(Flatten(lines))
        r == JsonLoads(mt.toks)
        nothing == [raised |-> FALSE, risks |-> <<>>]
    IN IF raises THEN [raised |-> TRUE, risks |-> <<>>]
       ELSE IF ~mt.found THEN nothing
       ELSE IF ~r.ok THEN [raised |-> TRUE, risks |-> <<>>]
       ELSE IF Truthy(DictGet(r.val, "found", PNull))
       THEN [raised |-> FALSE,
             risks |-> <<[risk_category |-> category,
                          explanation |-> DictGet(r.val, "explanation", PStr("N/A")),
                          quote |-> DictGet(r.val, "quote", PStr("N/A"))]>>]
       ELSE nothing

\* generate_answers: the model call inside try/except, then parse_response
generate_answers(qs, raises, lines) ==
    IF raises
    THEN [answers |-> [i \in 1..Len(qs) |-> PStr(ErrorAnswer)], path |-> "error"]
    ELSE parse_response(lines, Len(qs))

(***************************************************************************)
(* The language-model outputs the answer synthesis is checked on.          *)
(***************************************************************************)
SeqsUpTo(S, n) == UNION {[1..k -> S] : k \in 0..n}

RECURSIVE CommaSep(_)
CommaSep(elems) ==
    IF Len(elems) <= 1 THEN elems
    ELSE <<elems[1], ",">> \o CommaSep(Tail(elems))

\* array elements a model may put in the answers array
ElemTokens == {"\"A1\"", "\"A2\"", "7", "null"}

AnswersObject(elems) ==
    <<"{", "\"answers\"", ":", "[">> \o CommaSep(elems) \o <<"]", "}">>

WellFormedBodies == {AnswersObject(e) : e \in SeqsUpTo(ElemTokens, MaxAnswers)}

WrongShapeBodies == {
    <<"{", "\"answers\"", ":", "\"A1\"", "}">>,
    <<"{", "\"other\"", ":", "[", "\"A1\"", "]", "}">>,
    <<"[", "\"A1\"", "]">>,
    <<"{", "\"answers\"", ":", "[", "\"A1\"">>,
    <<"{", "\"answers\"", ":", "[", "[", "\"A1\"", "]", "]", "}">>,
    <<"{", "\"answers\"", ":", "[", "{", "\"other\"", ":", "\"A1\"", "}", "]", "}">>,
    <<"{", "\"other\"", ":", "7", ",", "\"answers\"", ":", "[", "\"A1\"", ",", "\"A2\"", "]", "}">>,
    <<"{", "\"answers\"", ":", "[", "\"A1\"", "]", ",", "\"answers\"", ":", "null", "}">>,
    <<"{", "}">> }

Wrappings(body) == {
    <<body>>,
    <<<<"<fence>json">>, body, <<"<fence>">>>>,
    <<<<"Here", "you", "go:">>, <<"<fence>json">>, body, <<"<fence>">>, <<"Done.">>>>,
    <<<<"<fence>">>, body, <<"<fence>">>>>,
    <<<<"Here", "you", "go:">>, body>>,
    <<body, <<"Hope", "this", "helps.">>>> }

ProseLines == {
    <<>>,
    <<"1.", "First">>,
    <<"2.", "Second">>,
    <<"3.", "Third">>,
    <<"2.">>,
    <<"more", "text">>,
    <<"QUESTIONS", "TO", "ANSWER:">>,
    <<"1.", "First", "answer", "text.", "2.", "Second", "answer.">> }

ProseResponses == SeqsUpTo(ProseLines, MaxLines)

Responses ==
    UNION {Wrappings(b) : b \in WellFormedBodies \cup WrongShapeBodies} \cup ProseResponses

\* question lists: question i of a list is identified by a number
QuestionList(n) == [i \in 1..n |-> i]

(***************************************************************************)
(* Document texts: sequences of characters.  A character is a one-element  *)
(* string; "NUL" stands for the NUL character, and a page header of the    *)
(* PDF extraction is kept as one character.                                *)
(***************************************************************************)
Whitespace == {" ", "\n"}

RECURSIVE LStrip(_)
LStrip(t) == IF t # <<>> /\ Head(t) \in Whitespace THEN LStrip(Tail(t)) ELSE t

RECURSIVE RStrip(_)
RStrip(t) ==
    IF t # <<>> /\ t[Len(t)] \in Whitespace THEN RStrip(SubSeq(t, 1, Len(t) - 1)) ELSE t

\* str.strip()
Strip(t) == RStrip(LStrip(t))

\* str.replace of the NUL character by the empty string
RemoveNul(t) == SelectSeq(t, LAMBDA c : c # "NUL")

(***************************************************************************)
(* ContentProcessor.download_and_extract.  A resource is what the url      *)
(* serves: whether the GET succeeds, the content-type header, the body of  *)
(* a plain-text response, the page contents of a PDF and whether the PDF   *)
(* loader can parse it.                                                    *)
(***************************************************************************)
PdfTypes == {"application/pdf"}
PlainTypes == {"text/plain", "text/plain; charset=utf-8"}

PageHeader(i) == "=== Page " \o ToString(i) \o " ==="

RECURSIVE PdfText(_, _)
\* the text_parts of the PDF branch, joined: one part per page with content
PdfText(pages, i) ==
    IF i > Len(pages) THEN <<>>
    ELSE LET page_content == Strip(pages[i]) IN
         (IF page_content # <<>>
          THEN <<"\n", PageHeader(i), "\n">> \o page_content \o <<"\n">>
          ELSE <<>>) \o PdfText(pages, i + 1)

Failed(status) == [status |-> status, text |-> <<>>]

\* the check for extracted text and the cleaning at the end of download_and_extract
CleanOrFail(text) ==
    IF Strip(text) = <<>> THEN Failed(400)
    ELSE [status |-> 200, text |-> Strip(RemoveNul(text))]

\* the temporary files on disk after download_and_extract(res): the PDF branch
\* creates the file path with delete=False and writes the fetched bytes inside
\* the with block; the try / finally that unlinks the file starts after it
TempFilesAfter(files, res, path) ==
    IF ~res.fetch_ok \/ res.content_type \notin PdfTypes THEN files
    ELSE IF ~res.write_ok THEN files \cup {path}
    ELSE (files \cup {path}) \ {path}

download_and_extract(res) ==
    IF ~res.fetch_ok THEN Failed(400)
    ELSE IF res.content_type \in PdfTypes
    THEN IF ~res.write_ok THEN Failed(400)
         ELSE IF ~res.pdf_ok THEN Failed(422)
         ELSE CleanOrFail(PdfText(res.pages, 1))
    ELSE IF res.content_type \in PlainTypes
    THEN CleanOrFail(res.body)
    ELSE Failed(415)

(***************************************************************************)
(* ContentProcessor.extract_text_from_content and the chunker are called   *)
(* by the upload handler; they are modelled from the description of the    *)
(* content extractor and of the chunker.                                   *)
(***************************************************************************)
extract_text_from_content(content, content_type, parse_ok) ==
    IF content_type \notin PdfTypes \cup PlainTypes THEN Failed(415)
    ELSE IF content_type \in PdfTypes /\ ~parse_ok THEN Failed(422)
    ELSE LET cleaned == Strip(RemoveNul(content)) IN
         IF cleaned = <<>> THEN Failed(400) ELSE [status |-> 200, text |-> cleaned]

ChunkSize == 2
ChunkOverlap == 1

RECURSIVE ChunkFrom(_, _)
ChunkFrom(text, start) ==
    IF start + ChunkSize - 1 >= Len(text)
    THEN <<SubSeq(text, start, Len(text))>>
    ELSE <<SubSeq(text, start, start + ChunkSize - 1)>>
         \o ChunkFrom(text, start + ChunkSize - ChunkOverlap)

\* ordered, overlapping segments; one segment for a short text, none for no text
chunk_text(text) == IF text = <<>> THEN <<>> ELSE ChunkFrom(text, 1)

(***************************************************************************)
(* EnhancedHybridVectorStore.  The index maps a vector id to the metadata  *)
(* stored with it; all documents share the one namespace.                  *)
(***************************************************************************)
BatchSize == 20
SearchLimit == 15
EnhancedLimit == 10

VectorId(document_id, i) == <<"chunk", document_id, i>>

EmptyIndex == [v \in {} |-> [text |-> <<>>, chunk_id |-> 0, document_id |-> 0]]

\* pinecone_index.upsert(vectors, namespace): a vector id is written once
Upsert(index, vectors) ==
    [v \in DOMAIN index \cup DOMAIN vectors |->
        IF v \in DOMAIN vectors THEN vectors[v] ELSE index[v]]

\* the vectors of the batch starting at chunk index batch_idx (counted from 0)
BatchVectors(chunks, document_id, batch_idx) ==
    LET batch_end == Min(batch_idx + BatchSize, Len(chunks))
        ids == {VectorId(document_id, i) : i \in batch_idx..(batch_end - 1)}
    IN [v \in ids |-> [text |-> chunks[v[3] + 1],
                       chunk_id |-> v[3],
                       document_id |-> document_id]]

NumBatches(chunks) == (Len(chunks) + BatchSize - 1) \div BatchSize

RECURSIVE UpsertBatches(_, _, _, _, _)
\* the batch loop; the upsert of batch number fail_at raises (0: none does),
\* which ends the loop with the earlier batches written
UpsertBatches(index, chunks, document_id, k, fail_at) ==
    IF k > NumBatches(chunks) \/ k = fail_at THEN index
    ELSE UpsertBatches(Upsert(index, BatchVectors(chunks, document_id, (k - 1) * BatchSize)),
                       chunks, document_id, k + 1, fail_at)

\* add_to_pinecone_fallback: fail_at = -1 when the embedding call raises, k >= 1
\* when the upsert of batch k raises, 0 when nothing raises.  Every exception is
\* caught and logged inside; the caller gets no error either way.
add_to_pinecone_fallback(index, chunks, document_id, fail_at) ==
    [index |-> IF fail_at = -1 THEN index
               ELSE UpsertBatches(index, chunks, document_id, 1, fail_at),
     raised |-> FALSE]

\* the metadata filter a search passes to the index query
NoFilter == [key |-> "none", value |-> 0]
SearchFilter_None(document_id) == NoFilter

SearchFilter(document_id) == [key |-> "document_id", value |-> document_id]

Passes(meta, filter) == filter.key = "document_id" => meta.document_id = filter.value

RECURSIVE SortedIds(_, _)
\* the ids of S by document and chunk position, ascending or descending
SortedIds(S, asc) ==
    IF S = {} THEN <<>>
    ELSE LET Before(a, b) == a[2] < b[2] \/ (a[2] = b[2] /\ a[3] <= b[3])
             first == CHOOSE a \in S : \A b \in S : IF asc THEN Before(a, b) ELSE Before(b, a)
         IN <<first>> \o SortedIds(S \ {first}, asc)

\* pinecone_index.query(vector, top_k, namespace, filter): the top_k entries that
\* pass the filter, most similar first.  The similarity order depends on the
\* embedding; the model lets it be either direction of the stored order.
PineconeQuery(index, filter, top_k, asc) ==
    LET hits == {v \in DOMAIN index : Passes(index[v], filter)}
        ranked == SortedIds(hits, asc)
    IN [i \in 1..Min(top_k, Len(ranked)) |-> index[ranked[i]]]

QueryOutcomes == {"asc", "desc", "embed_raises", "query_raises"}

\* the body of search / search_pinecone_enhanced: embed the query, query the
\* index with the document filter, return the texts; any exception gives []
SearchWith(index, document_id, limit, outcome) ==
    LET matches == PineconeQuery(index, SearchFilter(document_id), limit, outcome = "asc") IN
    IF outcome \in {"embed_raises", "query_raises"}
    THEN [doc |-> document_id, failed |-> TRUE, issued |-> outcome = "query_raises",
          matches |-> <<>>, texts |-> <<>>]
    ELSE [doc |-> document_id, failed |-> FALSE, issued |-> TRUE,
          matches |-> matches,
          texts |-> [i \in 1..Len(matches) |-> matches[i].text]]

search(index, document_id, outcome) == SearchWith(index, document_id, SearchLimit, outcome)

search_pinecone_enhanced(index, document_id, outcome) ==
    SearchWith(index, document_id, EnhancedLimit, outcome)

(***************************************************************************)
(* The session store (session_manager), modelled from its description:     *)
(* a token is minted when the request carries none, an entry is the one    *)
(* current document of its token and is overwritten by a later upload.     *)
(* The empty string stands for a request without a session cookie.         *)
(***************************************************************************)
NoCookie == ""
ForgedToken == "forged"
MintedTokens(n) == {"s" \o ToString(i) : i \in 1..n}

NoSessions == [t \in {} |-> [document_id |-> 0, full_text |-> <<>>]]

get_or_create_session_id(session_id, minted) ==
    IF session_id = NoCookie THEN "s" \o ToString(minted + 1) ELSE session_id

\* get_session_data: the entry, or nothing
get_session_data(store, token) ==
    IF token \in DOMAIN store
    THEN [found |-> TRUE, data |-> store[token]]
    ELSE [found |-> FALSE, data |-> [document_id |-> 0, full_text |-> <<>>]]

update_session_data(store, token, document_id, full_text) ==
    [t \in DOMAIN store \cup {token} |->
        IF t = token THEN [document_id |-> document_id, full_text |-> full_text]
        ELSE store[t]]

(***************************************************************************)
(* The request handlers of endpoints.py.                                   *)
(***************************************************************************)
TopPerQuestion == 5
MaxFinalChunks == 20
GroupSize == 10
FixedDelay == 2

NoRequest ==
    [op |-> "none", source |-> "none", status |-> 0, cookie |-> NoCookie, token |-> NoCookie,
     doc |-> 0, extracted |-> FALSE, index_failed |-> FALSE, queries |-> <<>>, nq |-> 0,
     synth_calls |-> 0, synth_nq |-> 0, segments |-> <<>>, llm_calls |-> 0,
     answers |-> <<>>, text |-> <<>>]

\* uuid.uuid4(): an identifier no earlier call has returned
uuid4(count) == count + 1

\* an abort that drops the session of the request
SessionsAfterAbort_Dropped(store, session_id) ==
    [t \in DOMAIN store \ {session_id} |-> store[t]]

\* the session store after upload_document raised before it came to resolve
\* the session token: nothing has touched the store
SessionsAfterAbort(store, session_id) == store

\* the part of upload_document after the content is at hand: extract, chunk,
\* draw a document id, index, resolve the session token, store the session
Ingest(source, cookie, content, content_type, parse_ok, fail_at, base) ==
    LET ex == extract_text_from_content(content, content_type, parse_ok)
        full_text == ex.text
        chunks == chunk_text(full_text)
        new_document_id == uuid4(uuid_count)
        ix == add_to_pinecone_fallback(pinecone, chunks, new_document_id, fail_at)
        active_session_id == get_or_create_session_id(cookie, token_count)
    IN IF ex.status # 200
       THEN /\ req' = [base EXCEPT !.status = ex.status]
            /\ sessions' = SessionsAfterAbort(sessions, cookie)
            /\ UNCHANGED <<pinecone, uuid_count, token_count, latest_upload>>
       ELSE /\ uuid_count < MaxUploads
            /\ fail_at \in (-1)..NumBatches(chunks)
            /\ uuid_count' = new_document_id
            /\ pinecone' = ix.index
            /\ IF ix.raised
               THEN /\ req' = [base EXCEPT !.status = 500, !.extracted = TRUE,
                                           !.doc = new_document_id, !.index_failed = TRUE]
                    /\ UNCHANGED <<sessions, token_count, latest_upload>>
               ELSE /\ token_count' = IF cookie = NoCookie THEN token_count + 1 ELSE token_count
                    /\ sessions' = update_session_data(sessions, active_session_id,
                                                       new_document_id, full_text)
                    /\ latest_upload' =
                         [t \in DOMAIN latest_upload \cup {active_session_id} |->
                            IF t = active_session_id
                            THEN [document_id |-> new_document_id, full_text |-> full_text]
                            ELSE latest_upload[t]]
                    /\ req' = [base EXCEPT !.status = 200, !.extracted = TRUE,
                                           !.token = active_session_id,
                                           !.doc = new_document_id,
                                           !.index_failed = (fail_at # 0),
                                           !.text = full_text]

\* upload_document with neither or both of url and file
UploadBadRequest(cookie) ==
    /\ req.op = "none"
    /\ req' = [NoRequest EXCEPT !.op = "upload", !.source = "bad", !.status = 400,
                                !.cookie = cookie]
    /\ sessions' = SessionsAfterAbort(sessions, cookie)
    /\ UNCHANGED <<pinecone, uuid_count, token_count, latest_upload>>
    /\ UNCHANGED OutsideService

\* upload_document with an uploaded file
UploadFile(cookie, content, content_type, parse_ok, fail_at) ==
    /\ req.op = "none"
    /\ Ingest("file", cookie, content, content_type, parse_ok, fail_at,
              [NoRequest EXCEPT !.op = "upload", !.source = "file", !.cookie = cookie])
    /\ UNCHANGED OutsideService

\* upload_document with a url: download_and_extract returns the cleaned text, a
\* str, which the handler unpacks into (content, content_type); unpacking a str
\* of any length but 2 raises ValueError, and a str of length 2 gives its two
\* characters
UploadUrl(cookie, res, fail_at) ==
    /\ req.op = "none"
    /\ LET r == download_and_extract(res)
           base == [NoRequest EXCEPT !.op = "upload", !.source = "url", !.cookie = cookie]
       IN IF r.status # 200
          THEN /\ req' = [base EXCEPT !.status = r.status]
               /\ sessions' = SessionsAfterAbort(sessions, cookie)
               /\ UNCHANGED <<pinecone, uuid_count, token_count, latest_upload>>
          ELSE IF Len(r.text) # 2
          THEN /\ req' = [base EXCEPT !.status = 500, !.extracted = TRUE, !.text = r.text]
               /\ sessions' = SessionsAfterAbort(sessions, cookie)
               /\ UNCHANGED <<pinecone, uuid_count, token_count, latest_upload>>
          ELSE Ingest("url", cookie, <<r.text[1]>>, r.text[2], TRUE, fail_at,
                      [base EXCEPT !.extracted = TRUE, !.text = r.text])
    /\ UNCHANGED OutsideService

\* the guard of process_documents and summarize_document that lets any session in
NoActiveSession_Never(store, session_id) == FALSE

\* not session_id or not get_session_data(session_id)
NoActiveSession(store, session_id) ==
    session_id = NoCookie \/ ~get_session_data(store, session_id).found

\* the document a question request queries: one that ignores the session entry
RunDocumentId_First(session_data) == 1

\* session_data["document_id"]
RunDocumentId(session_data) == session_data.document_id

\* the retrieval loop of process_documents: one search per question
RunQueries(index, document_id, outcomes) ==
    [i \in 1..Len(outcomes) |-> search(index, document_id, outcomes[i])]

\* set(relevant_chunks[:5]) keeping every result instead of the first five
TopChunks_All(texts) == {texts[i] : i \in 1..Len(texts)}

\* set(relevant_chunks[:5])
TopChunks(texts) == {texts[i] : i \in 1..Min(TopPerQuestion, Len(texts))}

\* all_relevant_chunks after the loop
AllRelevantChunks(results) == UNION {TopChunks(results[i]) : i \in 1..Len(results)}

RECURSIVE KSubsets(_, _)
KSubsets(S, k) ==
    IF k = 0 THEN {{}}
    ELSE UNION {{T \cup {x} : T \in KSubsets(S \ {x}, k - 1)} : x \in S}

RECURSIVE SetToSeq(_)
\* list(a_set): its elements, each once, in some order
SetToSeq(S) ==
    IF S = {} THEN <<>>
    ELSE LET x == CHOOSE y \in S : TRUE IN <<x>> \o SetToSeq(S \ {x})

\* list(all_relevant_chunks)[:20]: a set has no defined order, so any
\* MaxFinalChunks of its elements can be the ones kept; the model fixes the
\* order of the kept ones
FinalChunkChoices(U) ==
    IF Cardinality(U) <= MaxFinalChunks THEN {SetToSeq(U)}
    ELSE {SetToSeq(U \ D) : D \in KSubsets(U, Cardinality(U) - MaxFinalChunks)}

\* ProcessResponse(answers=answers): the response model takes strings only
ValidAnswers(list) == \A i \in 1..Len(list) : IsStr(list[i])

\* process_documents
Run(cookie, n, outcomes, raises, text) ==
    /\ req.op = "none"
    /\ LET base == [NoRequest EXCEPT !.op = "run", !.cookie = cookie, !.nq = n] IN
       IF NoActiveSession(sessions, cookie)
       THEN req' = [base EXCEPT !.status = 400]
       ELSE LET session_data == get_session_data(sessions, cookie).data
                document_id == RunDocumentId(session_data)
                queries == RunQueries(pinecone, document_id, outcomes)
                all_relevant_chunks ==
                    AllRelevantChunks([i \in 1..Len(queries) |-> queries[i].texts])
            IN \E final_chunks \in FinalChunkChoices(all_relevant_chunks) :
                 LET gen == generate_answers(QuestionList(n), raises, text) IN
                 req' = [base EXCEPT
                           !.status = IF ValidAnswers(gen.answers) THEN 200 ELSE 500,
                           !.doc = document_id,
                           !.queries = queries,
                           !.synth_calls = 1,
                           !.synth_nq = n,
                           !.llm_calls = 1,
                           !.segments = final_chunks,
                           !.answers = IF ValidAnswers(gen.answers) THEN gen.answers ELSE <<>>]
    /\ UNCHANGED <<pinecone, sessions, uuid_count, token_count, latest_upload>>
    /\ UNCHANGED OutsideService

\* summarize_text: the number of grouped map calls for a text
NumGroups(text) == (Len(chunk_text(text)) + GroupSize - 1) \div GroupSize

\* summarize_document; fail_at is the model call that raises (0: none), the map
\* calls being numbered 1..NumGroups and the reduce call NumGroups + 1
Summarize(cookie, fail_at) ==
    /\ req.op = "none"
    /\ LET base == [NoRequest EXCEPT !.op = "summarize", !.cookie = cookie] IN
       IF NoActiveSession(sessions, cookie)
       THEN req' = [base EXCEPT !.status = 400]
       ELSE LET session_data == get_session_data(sessions, cookie).data
                full_text == session_data.full_text
                groups == NumGroups(full_text)
            IN /\ fail_at \in 0..(groups + 1)
               /\ req' = [base EXCEPT
                            !.status = 200,
                            !.text = full_text,
                            !.llm_calls = IF groups = 0 THEN 0
                                          ELSE IF fail_at = 0 THEN groups + 1 ELSE fail_at,
                            !.answers = <<PStr(IF groups = 0 THEN ""
                                               ELSE IF fail_at = 0 THEN "summary"
                                               ELSE "Error during summarization")>>]
    /\ UNCHANGED <<pinecone, sessions, uuid_count, token_count, latest_upload>>
    /\ UNCHANGED OutsideService

\* a direct call of search_pinecone_enhanced
SearchEnhanced(document_id, outcome) ==
    /\ req.op = "none"
    /\ req' = [NoRequest EXCEPT !.op = "search_enhanced", !.status = 200,
                                !.doc = document_id,
                                !.queries = <<search_pinecone_enhanced(pinecone, document_id,
                                                                        outcome)>>]
    /\ UNCHANGED <<pinecone, sessions, uuid_count, token_count, latest_upload>>
    /\ UNCHANGED OutsideService

\* the response of the last request has been delivered; the next one can come in
Respond ==
    /\ req.op # "none"
    /\ req' = NoRequest
    /\ UNCHANGED <<pinecone, sessions, uuid_count, token_count, latest_upload>>
    /\ UNCHANGED OutsideService

AggregationIdle ==
    /\ agg_results = <<>>
    /\ agg_final = <<>>
    /\ agg_phase = "idle"

NoCall == [called |-> FALSE, content_type |-> "", write_ok |-> TRUE, pdf_ok |-> TRUE,
           status |-> 0, text |-> <<>>, path |-> 0]

RunsIdle ==
    /\ run_op = "none"
    /\ run_pc = "idle"
    /\ run_items = 0
    /\ run_idx = 0
    /\ in_flight = 0
    /\ elapsed = 0
    /\ min_gap = FixedDelay
    /\ call_log = <<>>
    /\ found_risks = <<>>
    /\ run_result = "none"

ExtractIdle ==
    /\ temp_files = {}
    /\ temp_created = 0
    /\ ex_last = NoCall

ServiceIdle ==
    /\ pinecone = EmptyIndex
    /\ sessions = NoSessions
    /\ uuid_count = 0
    /\ token_count = 0
    /\ req = NoRequest
    /\ latest_upload = NoSessions

(***************************************************************************)
(* cache_manager.py: the in-memory document cache.                         *)
(***************************************************************************)
Urls == 1..NumUrls
CacheDocIds == {"docA", "docB"}
CacheChunkSeqs == {<<"c1">>, <<"c1", "c2">>}

NoEntry == [document_id |-> "", chunks |-> <<>>, cached_at |-> 0]
Absent == [found |-> FALSE, entry |-> NoEntry]
NoPut == [present |-> FALSE, document_id |-> "", chunks |-> <<>>]

\* a hash that keeps no information about the url: every url collides
get_url_hash_Colliding(url) == <<"sha256", 0>>

\* get_url_hash: the SHA-256 hex digest of the url, one digest per url
get_url_hash(url) == <<"sha256", url>>

\* document_cache.get(url_hash)
get_cached_document(cache, url) ==
    LET url_hash == get_url_hash(url) IN
    IF url_hash \in DOMAIN cache
    THEN [found |-> TRUE, entry |-> cache[url_hash]]
    ELSE Absent

\* document_cache[url_hash] = {...}
cache_document(cache, url, document_id, chunks, now) ==
    LET url_hash == get_url_hash(url)
        entry == [document_id |-> document_id, chunks |-> chunks, cached_at |-> now]
    IN [h \in DOMAIN cache \cup {url_hash} |-> IF h = url_hash THEN entry ELSE cache[h]]

CacheIdle ==
    /\ document_cache = [h \in {} |-> NoEntry]
    /\ cache_clock = 0
    /\ cache_last = [op |-> "none", url |-> 0, result |-> Absent]
    /\ cache_puts = [u \in Urls |-> NoPut]

GetCachedDocument(url) ==
    /\ cache_last' = [op |-> "get", url |-> url,
                      result |-> get_cached_document(document_cache, url)]
    /\ UNCHANGED <<document_cache, cache_clock, cache_puts>>
    /\ UNCHANGED OutsideCache

CacheDocument(url, document_id, chunks) ==
    /\ cache_clock < MaxCachePuts
    /\ cache_clock' = cache_clock + 1
    /\ document_cache' = cache_document(document_cache, url, document_id, chunks, cache_clock')
    /\ cache_last' = [op |-> "put", url |-> url, result |-> Absent]
    /\ cache_puts' = [cache_puts EXCEPT ![url] =
                        [present |-> TRUE, document_id |-> document_id, chunks |-> chunks]]
    /\ UNCHANGED OutsideCache

AnswerIdle ==
    /\ questions = <<>>
    /\ llm_raises = FALSE
    /\ response_text = <<>>
    /\ answers = <<>>
    /\ apath = "none"
    /\ aphase = "idle"

InitCache == CacheIdle /\ AnswerIdle /\ ServiceIdle /\ AggregationIdle /\ ExtractIdle /\ RunsIdle

NextCache ==
    \/ \E url \in Urls : GetCachedDocument(url)
    \/ \E url \in Urls, d \in CacheDocIds, c \in CacheChunkSeqs : CacheDocument(url, d, c)

SpecCache == InitCache /\ [][NextCache]_vars

\* what a lookup of url must return given the history of cache_document calls
MatchesLatestPut(result, url) ==
    /\ result.found = cache_puts[url].present
    /\ result.found =>
        /\ result.entry.document_id = cache_puts[url].document_id
        /\ result.entry.chunks = cache_puts[url].chunks

CacheStateInv ==
    /\ \A u \in Urls : MatchesLatestPut(get_cached_document(document_cache, u), u)
    /\ cache_last.op = "get" => MatchesLatestPut(cache_last.result, cache_last.url)
    /\ Cardinality(DOMAIN document_cache) = Cardinality({u \in Urls : cache_puts[u].present})

CacheStepInv ==
    /\ cache_last'.op = "get" => document_cache' = document_cache
    /\ DOMAIN document_cache \subseteq DOMAIN document_cache'

\* C4: a lookup returns absent for a url never cached and otherwise the
\* document_id and chunks of the latest cache_document of that url; a lookup
\* leaves the cache as it is, no entry is ever removed, and the cache holds
\* one entry per distinct cached url
C4_GetAfterPut == []CacheStateInv /\ [][CacheStepInv]_vars

\* C4 witness: a url cached twice, then looked up, returns the second document
C4_Witness_Overwritten ==
    /\ cache_last.op = "get"
    /\ cache_last.result.found
    /\ cache_last.result.entry.document_id = "docB"
    /\ cache_last.result.entry.cached_at = 2
    /\ cache_clock = 2
    /\ Cardinality(DOMAIN document_cache) = 1

(***************************************************************************)
(* Spec: the service under requests of every kind.                         *)
(***************************************************************************)
\* the uploaded files: their bytes, the declared content type, and whether a
\* PDF among them can be parsed
FileUpload(content, content_type, parse_ok) ==
    [content |-> content, content_type |-> content_type, parse_ok |-> parse_ok]

FileUploads == {
    FileUpload(<<"a", "b", "c">>, "text/plain", TRUE),
    FileUpload(<<"a", "b">>, "text/plain", TRUE),
    FileUpload(<<" ", "a", "b", "NUL", "c", "\n">>, "text/plain", TRUE),
    FileUpload(<<"NUL", " ">>, "text/plain", TRUE),
    FileUpload(<<"a", "b", "c">>, "application/pdf", TRUE),
    FileUpload(<<"a", "b", "c">>, "application/pdf", FALSE),
    FileUpload(<<"a", "b", "c">>, "image/png", TRUE) }

\* -1: the embedding call raises, 0: nothing raises, 1: the first upsert raises
IndexFailures == {-1, 0, 1}

Resource(ok, ctype, body, pages, pdf_ok) ==
    [fetch_ok |-> ok, content_type |-> ctype, body |-> body, pages |-> pages, pdf_ok |-> pdf_ok,
     write_ok |-> TRUE]

UrlResources ==
    {Resource(FALSE, "text/plain", <<>>, <<>>, TRUE),
     Resource(TRUE, "text/html", <<"a", "b">>, <<>>, TRUE)}
    \cup {Resource(TRUE, t, b, <<>>, TRUE) :
            t \in PlainTypes,
            b \in {<<"a", "b", "c">>, <<"a", "b">>, <<" ", "a", "NUL", " ">>,
                   <<"NUL", " ">>, <<" ", "\n">>, <<>>}}
    \cup {Resource(TRUE, "application/pdf", <<>>, p, ok) :
            p \in {<<<<"a", "b">>>>, <<<<" ">>>>, <<<<"a">>, <<" ">>, <<"b", "\n">>>>},
            ok \in BOOLEAN}

\* the cookie of a request: none, a value the store never issued, or a token
\* an earlier upload was answered with
Cookies == {NoCookie, ForgedToken} \cup MintedTokens(token_count)
UploadCookies == {NoCookie} \cup MintedTokens(token_count)

\* the searches of one question request: each succeeds, or those of some of
\* the questions fail, in the embedding call or in the index query
RetrievalOutcomes(n) ==
    {[i \in 1..n |-> "asc"]}
    \cup {[i \in 1..n |-> IF i \in F THEN kind ELSE "asc"] :
            F \in (SUBSET (1..n)) \ {{}}, kind \in {"embed_raises", "query_raises"}}

\* what the language model returns to a question request
RunLlmOutcomes == {
    [raises |-> TRUE, text |-> <<>>],
    [raises |-> FALSE, text |-> <<AnswersObject(<<"\"A1\"", "\"A2\"">>)>>],
    [raises |-> FALSE, text |-> <<AnswersObject(<<"null">>)>>] }

Init == ServiceIdle /\ AnswerIdle /\ CacheIdle /\ AggregationIdle /\ ExtractIdle /\ RunsIdle

Next ==
    \/ \E c \in Cookies : UploadBadRequest(c)
    \/ \E c \in UploadCookies, u \in FileUploads, f \in IndexFailures :
          UploadFile(c, u.content, u.content_type, u.parse_ok, f)
    \/ \E c \in UploadCookies, r \in UrlResources : UploadUrl(c, r, 0)
    \/ \E c \in Cookies, n \in 0..MaxRunQuestions, llm \in RunLlmOutcomes :
          \E o \in RetrievalOutcomes(n) : Run(c, n, o, llm.raises, llm.text)
    \/ \E c \in Cookies, f \in 0..2 : Summarize(c, f)
    \/ \E d \in 1..MaxUploads, o \in QueryOutcomes : SearchEnhanced(d, o)
    \/ Respond

Spec == Init /\ [][Next]_vars

\* the requests that went past the session check
Served == req.status # 400

\* C2: every search scoped to a document returns the texts of index entries of
\* that document only, whatever else the shared namespace holds
C2_DocumentIsolation ==
    \A i \in 1..Len(req.queries) :
        LET q == req.queries[i] IN
        /\ Len(q.texts) = Len(q.matches)
        /\ \A j \in 1..Len(q.matches) :
              /\ q.matches[j].document_id = q.doc
              /\ q.texts[j] = q.matches[j].text
              /\ \E v \in DOMAIN pinecone : pinecone[v] = q.matches[j]

\* C2 witness: the namespace holds the same text under two documents, and a
\* question request and a direct search scoped to the first got results
C2_Witness_SharedText ==
    /\ req.op \in {"run", "search_enhanced"}
    /\ Len(req.queries) >= 1
    /\ req.queries[1].doc = 1
    /\ Len(req.queries[1].texts) >= 1
    /\ \E v \in DOMAIN pinecone :
          /\ pinecone[v].document_id = 2
          /\ pinecone[v].text = req.queries[1].texts[1]

\* C3: an upload whose indexing hit an embedding or upsert error does not
\* report success and leaves no session pointing at the new document
C3_IndexingFailureAborts ==
    (req.op = "upload" /\ req.index_failed) =>
        /\ req.status # 200
        /\ \A t \in DOMAIN sessions : sessions[t].document_id # req.doc

\* C5: an upload, by url or by file, whose text extraction succeeded ends with
\* a document identifier newer than every earlier one and with the session
\* token of the response mapped to it
C5_UploadIngestsFresh ==
    (req.op = "upload" /\ req.extracted) =>
        /\ req.status = 200
        /\ req.doc = uuid_count
        /\ \A v \in DOMAIN pinecone : pinecone[v].document_id <= req.doc
        /\ req.token \in DOMAIN sessions
        /\ sessions[req.token].document_id = req.doc

\* C6: a question request on a session token that uploads were made under is
\* served, and each of its searches names the document of the latest of those
\* uploads; a summarize request summarizes the text of that upload
C6_SessionCurrentDocument ==
    (req.op \in {"run", "summarize"} /\ req.cookie \in DOMAIN latest_upload) =>
        /\ Served
        /\ req.op = "run" =>
              /\ Len(req.queries) = req.nq
              /\ \A i \in 1..Len(req.queries) :
                    req.queries[i].doc = latest_upload[req.cookie].document_id
        /\ req.op = "summarize" => req.text = latest_upload[req.cookie].full_text

\* C6 witness: two uploads with different texts under one token, then a
\* question request on it whose searches all name the second document
C6_Witness_SecondUpload ==
    /\ req.op = "run"
    /\ req.nq = 2
    /\ token_count = 1
    /\ uuid_count = 2
    /\ req.cookie = "s1"
    /\ sessions["s1"].document_id = 2
    /\ sessions["s1"].full_text = <<"a", "b">>
    /\ \E v \in DOMAIN pinecone : pinecone[v].document_id = 1 /\ pinecone[v].text = <<"b", "c">>
    /\ \A i \in 1..2 : req.queries[i].doc = 2

Rejected ==
    /\ req.status = 400
    /\ req.queries = <<>>
    /\ req.llm_calls = 0
    /\ req.synth_calls = 0

C7_RejectedInv ==
    (req.op \in {"run", "summarize"}
     /\ (req.cookie = NoCookie \/ req.cookie \notin DOMAIN latest_upload)) => Rejected

C7_RejectedStep ==
    (req'.op \in {"run", "summarize"} /\ req'.status = 400) =>
        UNCHANGED <<sessions, pinecone, uuid_count, token_count>>

\* C7: a question or summarize request without a session token, or with one no
\* upload has stored an entry for, gets a client error with no index query and
\* no model call made, and changes neither the session store nor the index
C7_NoSessionRejected == []C7_RejectedInv /\ [][C7_RejectedStep]_vars

\* C7 witness: with a session in the store, a question request carrying a
\* token the store never issued was rejected
C7_Witness_ForgedToken ==
    /\ req.op = "run"
    /\ req.cookie = ForgedToken
    /\ req.nq = 2
    /\ req.status = 400
    /\ DOMAIN sessions # {}

\* C8: when the search of some question fails, it yields no segments, the
\* searches of all questions are still made, the synthesizer is called once
\* with all questions, and the request returns one answer per question
C8_RetrievalDegrades ==
    (req.op = "run" /\ Served /\ \E i \in 1..Len(req.queries) : req.queries[i].failed) =>
        /\ Len(req.queries) = req.nq
        /\ \A i \in 1..Len(req.queries) : req.queries[i].failed => req.queries[i].texts = <<>>
        /\ req.synth_calls = 1
        /\ req.synth_nq = req.nq
        /\ req.status = 200
        /\ Len(req.answers) = req.nq

\* the part of C8 the retrieval loop keeps on its own
RetrievalLoopDegrades ==
    (req.op = "run" /\ Served /\ \E i \in 1..Len(req.queries) : req.queries[i].failed) =>
        /\ Len(req.queries) = req.nq
        /\ \A i \in 1..Len(req.queries) : req.queries[i].failed => req.queries[i].texts = <<>>
        /\ req.synth_calls = 1
        /\ req.synth_nq = req.nq

\* C12: every text download_and_extract returns is non-empty, holds no NUL
\* character and neither starts nor ends with whitespace
C12_ExtractedTextClean ==
    (req.op = "upload" /\ req.source = "url" /\ req.extracted) =>
        /\ req.text # <<>>
        /\ \A i \in 1..Len(req.text) : req.text[i] # "NUL"
        /\ req.text # <<>> =>
              /\ req.text[1] \notin Whitespace
              /\ req.text[Len(req.text)] \notin Whitespace

\* the part of C12 the code keeps: a returned text holds no NUL character and
\* is trimmed
ExtractedTextNulFreeTrimmed ==
    (req.op = "upload" /\ req.source = "url" /\ req.extracted /\ req.text # <<>>) =>
        /\ \A i \in 1..Len(req.text) : req.text[i] # "NUL"
        /\ req.text[1] \notin Whitespace
        /\ req.text[Len(req.text)] \notin Whitespace

\* the client errors of an upload that failed in download, extraction or
\* chunking, or that named both or neither of url and file
UploadFailed ==
    /\ req.op = "upload"
    /\ req.status \in {400, 415, 422}

C17_StoreIsLatestUploads ==
    /\ sessions = latest_upload
    /\ DOMAIN sessions = MintedTokens(token_count)
    /\ (req.op = "run" /\ req.cookie \in DOMAIN latest_upload) =>
          \A i \in 1..Len(req.queries) :
              req.queries[i].doc = latest_upload[req.cookie].document_id

C17_FailedUploadStep ==
    (req.op = "none" /\ req'.op = "upload" /\ req'.status \in {400, 415, 422}) =>
        UNCHANGED <<sessions, token_count, latest_upload>>

\* C17: an upload that fails in download, extraction or chunking, or with both
\* or neither of url and file, creates no session token and leaves every
\* session entry as the last successful upload on it wrote it, so that question
\* requests go on querying that document
C17_FailedUploadKeepsSessions == []C17_StoreIsLatestUploads /\ [][C17_FailedUploadStep]_vars

\* C17 witness: on a session that holds document 1, an upload of a PDF that
\* cannot be parsed failed, and the session still holds document 1
C17_Witness_FailedOnSession ==
    /\ UploadFailed
    /\ req.status = 422
    /\ req.cookie = "s1"
    /\ "s1" \in DOMAIN sessions
    /\ sessions["s1"].document_id = 1
    /\ uuid_count = 1

(***************************************************************************)
(* SpecAnswer: generate_answers applied to every question count and every  *)
(* outcome of the language-model call.                                     *)
(***************************************************************************)
InitAnswer ==
    /\ questions \in {QuestionList(n) : n \in 0..MaxQuestions}
    /\ \/ llm_raises = TRUE /\ response_text = <<>>
       \/ llm_raises = FALSE /\ response_text \in Responses
    /\ answers = <<>>
    /\ apath = "none"
    /\ aphase = "call"
    /\ CacheIdle
    /\ ServiceIdle
    /\ AggregationIdle
    /\ ExtractIdle
    /\ RunsIdle

GenerateAnswers ==
    /\ aphase = "call"
    /\ LET r == generate_answers(questions, llm_raises, response_text) IN
       /\ answers' = r.answers
       /\ apath' = r.path
    /\ aphase' = "done"
    /\ UNCHANGED <<questions, llm_raises, response_text>>
    /\ UNCHANGED OutsideAnswer

NextAnswer == GenerateAnswers

SpecAnswer == InitAnswer /\ [][NextAnswer]_vars

\* C1: generate_answers returns exactly one element per question, each a string
C1_ExactlyNStrings ==
    aphase = "done" =>
        /\ Len(answers) = Len(questions)
        /\ \A i \in 1..Len(answers) : IsStr(answers[i])

\* the part of C1 that the code keeps: the count
AnswerCountMatches == aphase = "done" => Len(answers) = Len(questions)

\* the Python value of an array element token
ElemValue(tok) ==
    IF tok \in DOMAIN JsonStringValue THEN PStr(JsonStringValue[tok])
    ELSE IF tok = "null" THEN PNull
    ELSE PNum(tok)

\* the ways of presenting a JSON object that parse_response accepts: bare, in a
\* labelled fenced block (also between prose), and after leading prose
ParsableWrappings(body) == {
    <<body>>,
    <<<<"<fence>json">>, body, <<"<fence>">>>>,
    <<<<"Here", "you", "go:">>, <<"<fence>json">>, body, <<"<fence>">>, <<"Done.">>>>,
    <<<<"Here", "you", "go:">>, body>> }

\* C10: when the output is a JSON object whose answers array has M elements and
\* there are N questions, the result is the first min(M, N) elements unchanged and
\* in order, then N - M copies of the padding placeholder; the JSON path is taken
\* (no error answers, no fallback parser)
C10_PadTruncateJson ==
    (aphase = "done" /\ ~llm_raises) =>
        \A e \in SeqsUpTo(ElemTokens, MaxAnswers) :
            response_text \in ParsableWrappings(AnswersObject(e)) =>
                /\ apath = "json"
                /\ answers = [i \in 1..Len(questions) |->
                                IF i <= Len(e) THEN ElemValue(e[i]) ELSE PStr(PadPlaceholder)]

\* C10 witness: a fenced object with one answer, for three questions, came back
\* as that answer followed by two padding placeholders
C10_Witness_Padded ==
    /\ aphase = "done"
    /\ response_text = <<<<"<fence>json">>, AnswersObject(<<"\"A1\"">>), <<"<fence>">>>>
    /\ Len(questions) = 3
    /\ answers = <<PStr("A1"), PStr(PadPlaceholder), PStr(PadPlaceholder)>>

\* numbered answers, one per line
NumberedAnswerLines == <<<<"1.", "First">>, <<"2.", "Second">>, <<"3.", "Third">>>>

\* C11: prose without a JSON object that carries N numbered answers for N
\* questions, one per line or one after the other on a single line, comes back
\* as the N answer texts without their numbers
C11_NumberedProse ==
    (aphase = "done" /\ ~llm_raises) =>
        /\ \A k \in 1..Min(MaxLines, 3) :
              (response_text = SubSeq(NumberedAnswerLines, 1, k) /\ Len(questions) = k) =>
                  answers = [i \in 1..k |-> PStr(NumberedAnswerLines[i][2])]
        /\ (/\ response_text = <<<<"1.", "First", "answer", "text.", "2.", "Second", "answer.">>>>
            /\ Len(questions) = 2) =>
                  answers = <<PStr("First answer text."), PStr("Second answer.")>>

\* the number a numbered token carries
NumberOf(tok) == CHOOSE k \in 1..3 : tok = ToString(k) \o "."

\* prose whose lines are numbered lines and continuation lines, starting with
\* a numbered line, no number twice
NumberedProse(lines) ==
    /\ lines # <<>>
    /\ \A i \in 1..Len(lines) : lines[i] # <<>> /\ lines[i][1] \notin SkipPrefixTokens
    /\ lines[1][1] \in NumberedTokens
    /\ \A i, j \in 1..Len(lines) :
          (i # j /\ lines[i][1] \in NumberedTokens /\ lines[j][1] \in NumberedTokens)
              => lines[i][1] # lines[j][1]

\* the text that belongs to answer k: what follows "k." on its line and the
\* continuation lines up to the next numbered line; "" when there is none
TextOfAnswer(lines, k) ==
    LET starts == {i \in 1..Len(lines) : lines[i][1] \in NumberedTokens /\ NumberOf(lines[i][1]) = k}
    IN IF starts = {} THEN ""
       ELSE LET i == SetMin(starts)
                later == {j \in (i + 1)..Len(lines) : lines[j][1] \in NumberedTokens}
                stop == IF later = {} THEN Len(lines) + 1 ELSE SetMin(later)
            IN Join(Tail(lines[i]) \o Flatten(SubSeq(lines, i + 1, stop - 1)))

\* C16: in fallback parsing the text of the line starting with "N." and of its
\* continuation lines is the answer at position N; a position whose number is
\* missing or has no text gets the placeholder
C16_AnswerAtItsNumber ==
    (aphase = "done" /\ ~llm_raises /\ apath = "fallback" /\ NumberedProse(response_text)) =>
        answers = [k \in 1..Len(questions) |->
                      IF TextOfAnswer(response_text, k) = ""
                      THEN PStr(FallbackPlaceholder)
                      ELSE PStr(TextOfAnswer(response_text, k))]

\* the part of C16 the code keeps: numbers that count up from 1 without a gap
\* and each with text
C16_InOrderNumbers ==
    (/\ aphase = "done" /\ ~llm_raises /\ apath = "fallback" /\ NumberedProse(response_text)
     /\ \A i \in 1..Len(response_text) :
           /\ Len(response_text[i]) >= 2
           /\ response_text[i][1] = ToString(i) \o ".") =>
        answers = [k \in 1..Len(questions) |->
                      IF TextOfAnswer(response_text, k) = ""
                      THEN PStr(FallbackPlaceholder)
                      ELSE PStr(TextOfAnswer(response_text, k))]

(***************************************************************************)
(* SpecAggregate: the retrieval aggregation of process_documents applied   *)
(* to the search results of up to MaxAggQuestions questions.  A text is    *)
(* identified by a number.                                                 *)
(***************************************************************************)
Window(first, n) == [i \in 1..n |-> first + i - 1]

\* what the search of one question may return: nothing, seven texts of which
\* the first five are new, texts also found by another search, one text twice
SearchResults ==
    {<<>>, <<1, 1, 2>>, <<21>>}
    \cup {Window(1 + TopPerQuestion * k, TopPerQuestion + 2) : k \in 0..3}

InitAggregate ==
    /\ agg_results = <<>>
    /\ agg_final = <<>>
    /\ agg_phase = "collect"
    /\ AnswerIdle /\ CacheIdle /\ ServiceIdle /\ ExtractIdle /\ RunsIdle

\* one more question, with the result of its search
CollectResult(texts) ==
    /\ agg_phase = "collect"
    /\ Len(agg_results) < MaxAggQuestions
    /\ agg_results' = Append(agg_results, texts)
    /\ UNCHANGED <<agg_final, agg_phase>>
    /\ UNCHANGED OutsideAggregation

\* the union over the questions and the cap, as process_documents computes them
AggregateResults ==
    /\ agg_phase = "collect"
    /\ agg_final' \in FinalChunkChoices(AllRelevantChunks(agg_results))
    /\ agg_phase' = "done"
    /\ UNCHANGED agg_results
    /\ UNCHANGED OutsideAggregation

NextAggregate ==
    \/ \E r \in SearchResults : CollectResult(r)
    \/ AggregateResults

SpecAggregate == InitAggregate /\ [][NextAggregate]_vars

\* the texts among the first five results of some question
FirstFiveTexts ==
    UNION {{agg_results[q][j] : j \in 1..Min(5, Len(agg_results[q]))} :
               q \in 1..Len(agg_results)}

\* C9: the list handed to the synthesizer has at most 20 segments, no text
\* twice, only texts among the first 5 results of some question, and exactly
\* min(20, number of distinct such texts) elements
C9_AggregationCapped ==
    agg_phase = "done" =>
        /\ Len(agg_final) <= 20
        /\ \A i, j \in 1..Len(agg_final) : i # j => agg_final[i] # agg_final[j]
        /\ \A i \in 1..Len(agg_final) : agg_final[i] \in FirstFiveTexts
        /\ Len(agg_final) = Min(20, Cardinality(FirstFiveTexts))

\* C9 witness: five questions with 21 distinct texts among their first five
\* results, of which 20 were kept
C9_Witness_CapApplied ==
    /\ agg_phase = "done"
    /\ Len(agg_results) = 5
    /\ Cardinality(FirstFiveTexts) = 21
    /\ Len(agg_final) = 20

(***************************************************************************)
(* SpecExtract: calls of download_and_extract on fetched resources, with   *)
(* the temporary files each call creates and removes.                      *)
(***************************************************************************)
\* the resources of the uploads, and the same with the disk refusing the write
ExtractResources ==
    UrlResources \cup {[r EXCEPT !.write_ok = FALSE] : r \in UrlResources}

InitExtract ==
    /\ ExtractIdle
    /\ AnswerIdle /\ CacheIdle /\ ServiceIdle /\ AggregationIdle /\ RunsIdle

\* one call of download_and_extract, from the request to its return or raise
DownloadAndExtract(res) ==
    /\ temp_created < MaxTempFiles
    /\ LET r == download_and_extract(res)
           is_pdf == res.fetch_ok /\ res.content_type \in PdfTypes
           path == temp_created + 1
       IN /\ temp_created' = IF is_pdf THEN path ELSE temp_created
          /\ temp_files' = TempFilesAfter(temp_files, res, path)
          /\ ex_last' = [called |-> TRUE, content_type |-> res.content_type,
                         write_ok |-> res.write_ok, pdf_ok |-> res.pdf_ok,
                         status |-> r.status, text |-> r.text,
                         path |-> IF is_pdf THEN path ELSE 0]
    /\ UNCHANGED OutsideExtract

NextExtract == \E res \in ExtractResources : DownloadAndExtract(res)

SpecExtract == InitExtract /\ [][NextExtract]_vars

\* C13: the temporary file a call of download_and_extract created for PDF
\* bytes is gone when the call has returned or raised
C13_TempFileRemoved ==
    (ex_last.called /\ ex_last.path # 0) => ex_last.path \notin temp_files

\* the part of C13 the code keeps: the file is gone once its bytes were written,
\* whether the parser succeeded or failed
TempFileRemovedAfterWrite ==
    (ex_last.called /\ ex_last.path # 0 /\ ex_last.write_ok) => ex_last.path \notin temp_files

(***************************************************************************)
(* SpecRuns: one run of analyze_text_for_risks or of summarize_text, step  *)
(* by step: each model call starts and ends, and time passes in between.   *)
(***************************************************************************)
RiskOutcome(kind, raises, lines) == [kind |-> kind, raises |-> raises, lines |-> lines]

\* what the model call for one checklist entry may give
RiskOutcomes == {
    RiskOutcome("found_true", FALSE,
                <<<<"{", "\"found\"", ":", "true", ",", "\"explanation\"", ":", "\"A1\"", ",",
                    "\"quote\"", ":", "\"A2\"", "}">>>>),
    RiskOutcome("found_true", FALSE,
                <<<<"Here", "you", "go:">>, <<"<fence>json">>,
                  <<"{", "\"found\"", ":", "true", "}">>, <<"<fence>">>>>),
    RiskOutcome("found_false", FALSE,
                <<<<"{", "\"found\"", ":", "false", ",", "\"explanation\"", ":", "\"A1\"", "}">>>>),
    RiskOutcome("no_found", FALSE, <<<<"{", "\"explanation\"", ":", "\"A1\"", "}">>>>),
    RiskOutcome("unparseable", FALSE, <<<<"No", "risk", "here.">>>>),
    RiskOutcome("unparseable", FALSE, <<<<"{", "\"found\"", ":", "true">>>>),
    RiskOutcome("unparseable", FALSE,
                <<<<"{", "\"found\"", ":", "true", "}">>, <<"{", "\"found\"", ":", "false", "}">>>>),
    RiskOutcome("raises", TRUE, <<>>) }

\* a sleep that is skipped after a call that raised
SleepAfterCall_NotOnError(op, raised) == IF raised THEN 0 ELSE FixedDelay

\* time.sleep(2) after a model call: in the try block and in the except block
\* of the risk scan, and after every map call of the summarizer
SleepAfterCall(op, raised) == FixedDelay

InitRuns ==
    /\ RunsIdle
    /\ AnswerIdle /\ CacheIdle /\ ServiceIdle /\ AggregationIdle /\ ExtractIdle

\* analyze_text_for_risks is called
StartRiskScan ==
    /\ run_pc = "idle"
    /\ run_op' = "risks"
    /\ run_items' = Len(RiskChecklist)
    /\ run_idx' = 1
    /\ run_pc' = "ready"
    /\ UNCHANGED <<in_flight, elapsed, min_gap, call_log, found_risks, run_result>>
    /\ UNCHANGED OutsideRuns

\* summarize_text is called on a text that gives n chunk groups; without chunks
\* it returns the empty summary at once
StartSummarize(n) ==
    /\ run_pc = "idle"
    /\ run_op' = "summarize"
    /\ run_items' = n
    /\ run_idx' = 1
    /\ run_pc' = IF n = 0 THEN "done" ELSE "ready"
    /\ run_result' = IF n = 0 THEN "" ELSE run_result
    /\ UNCHANGED <<in_flight, elapsed, min_gap, call_log, found_risks>>
    /\ UNCHANGED OutsideRuns

\* model.generate_content is entered
BeginCall ==
    /\ run_pc = "ready"
    /\ in_flight' = in_flight + 1
    /\ min_gap' = IF call_log # <<>> THEN Min(min_gap, elapsed) ELSE min_gap
    /\ run_pc' = "calling"
    /\ UNCHANGED <<run_op, run_items, run_idx, elapsed, call_log, found_risks, run_result>>
    /\ UNCHANGED OutsideRuns

\* the call of a checklist entry returns or raises, and the rest of the try
\* block up to the sleep runs
EndRiskCall(o) ==
    /\ run_pc = "calling"
    /\ run_op = "risks"
    /\ LET r == ScanResponse(RiskChecklist[run_idx], o.raises, o.lines) IN
       /\ found_risks' = found_risks \o r.risks
       /\ call_log' = Append(call_log, [kind |-> o.kind, raised |-> r.raised])
    /\ in_flight' = in_flight - 1
    /\ elapsed' = 0
    /\ run_pc' = "sleep"
    /\ UNCHANGED <<run_op, run_items, run_idx, min_gap, run_result>>
    /\ UNCHANGED OutsideRuns

\* a map call or the reduce call of summarize_text returns or raises; a raise
\* ends the run with the error summary
EndSummarizeCall(raises) ==
    /\ run_pc = "calling"
    /\ run_op = "summarize"
    /\ call_log' = Append(call_log, [kind |-> IF run_idx <= run_items THEN "map" ELSE "reduce",
                                     raised |-> raises])
    /\ in_flight' = in_flight - 1
    /\ elapsed' = 0
    /\ run_pc' = IF raises \/ run_idx > run_items THEN "done" ELSE "sleep"
    /\ run_result' = IF raises THEN "Error during summarization"
                     ELSE IF run_idx > run_items THEN "summary"
                     ELSE run_result
    /\ UNCHANGED <<run_op, run_items, run_idx, min_gap, found_risks>>
    /\ UNCHANGED OutsideRuns

\* time.sleep after a call, then the loop moves on: to the next entry, to the
\* reduce call, or to the return of found_risks
Sleep ==
    /\ run_pc = "sleep"
    /\ elapsed' = Min(FixedDelay,
                      elapsed + SleepAfterCall(run_op, call_log[Len(call_log)].raised))
    /\ run_idx' = run_idx + 1
    /\ run_pc' = IF run_op = "risks" /\ run_idx = run_items THEN "done" ELSE "ready"
    /\ run_result' = IF run_op = "risks" /\ run_idx = run_items THEN "found_risks"
                     ELSE run_result
    /\ UNCHANGED <<run_op, run_items, in_flight, min_gap, call_log, found_risks>>
    /\ UNCHANGED OutsideRuns

\* time passes while the run does something else than calling or sleeping
Tick ==
    /\ run_pc \in {"sleep", "ready"}
    /\ elapsed < FixedDelay
    /\ elapsed' = elapsed + 1
    /\ UNCHANGED <<run_op, run_pc, run_items, run_idx, in_flight, min_gap, call_log,
                   found_risks, run_result>>
    /\ UNCHANGED OutsideRuns

NextRuns ==
    \/ StartRiskScan
    \/ \E n \in 0..MaxGroups : StartSummarize(n)
    \/ BeginCall
    \/ \E o \in RiskOutcomes : EndRiskCall(o)
    \/ \E raises \in BOOLEAN : EndSummarizeCall(raises)
    \/ Sleep
    \/ Tick

SpecRuns == InitRuns /\ [][NextRuns]_vars

RECURSIVE FoundTrueCategories(_, _)
\* the checklist entries, in checklist order, whose call gave found true
FoundTrueCategories(log, i) ==
    IF i > Len(log) THEN <<>>
    ELSE (IF log[i].kind = "found_true" THEN <<RiskChecklist[i]>> ELSE <<>>)
         \o FoundTrueCategories(log, i + 1)

\* C14: a risk scan makes one model call per checklist entry, returns, and
\* returns the entries whose call gave a JSON object with found true, in
\* checklist order and once each, whatever the calls of the other entries gave
C14_RiskScanPerCategory ==
    /\ run_op = "risks" =>
          /\ Len(call_log) <= Len(RiskChecklist)
          /\ [k \in 1..Len(found_risks) |-> found_risks[k].risk_category]
                = FoundTrueCategories(call_log, 1)
    /\ (run_op = "risks" /\ run_pc = "done") =>
          /\ Len(call_log) = Len(RiskChecklist)
          /\ run_result = "found_risks"

\* C14 witness: the first call raised, the second gave unparseable output, and
\* a later entry was still found
C14_Witness_FoundAfterFailures ==
    /\ run_op = "risks"
    /\ run_pc = "done"
    /\ call_log[1].kind = "raises"
    /\ call_log[2].kind = "unparseable"
    /\ call_log[2].raised
    /\ \E k \in 1..Len(found_risks) : found_risks[k].risk_category = RiskChecklist[3]

\* C15: within a run at most one model call is in flight, and a model call
\* that follows another one starts no sooner than the fixed delay after the
\* end of that one
C15_SequentialThrottling ==
    /\ in_flight <= 1
    /\ min_gap >= FixedDelay

\* C15 witness: a summarize run made its map calls and its reduce call, each
\* after the delay
C15_Witness_ReduceAfterDelay ==
    /\ run_op = "summarize"
    /\ run_pc = "done"
    /\ Len(call_log) >= 3
    /\ call_log[Len(call_log)].kind = "reduce"
    /\ min_gap = FixedDelay

====
